---- MODULE Spec2Model ----
(***************************************************************************)
(* FixMatch training driver (train.py): the warmup-cosine schedule, the    *)
(* pseudo-label mask, the EMA shadow model, and the run coordinator        *)
(* (rank-aware barriers, epoch loop, checkpoint save and resume).          *)
(*                                                                         *)
(* Numbers.  Tensors entries and accuracies are fixed-point integers; a    *)
(* learning-rate multiplier m is the integer m * S.  Softmax inputs are    *)
(* kept as exp(logit), so softmax is the exact ratio e[i] / Sum(e).        *)
(***************************************************************************)
EXTENDS Integers, Sequences, FiniteSets, TLC

(* ------------------------------ bounds --------------------------------- *)
MaxRuns == 2          \* launches of the program on the same disk
MaxEpochs == 3        \* largest --epochs
MaxStep == 6          \* largest schedule step the schedule check evaluates
MaxTotal == 3         \* largest num_training_steps of the schedule check
MaxWarmup2 == 4       \* largest num_warmup_steps, in half steps
MaxEmaCalls == 3      \* ModelEMA.update calls the EMA check follows

(* --------------------------- fixed point ------------------------------- *)
S == 10000            \* 1.0 as a multiplier
PiS == 31416          \* math.pi * S
CyclesNum == 7        \* num_cycles = 7./16.
CyclesDen == 16

RECURSIVE SumOver(_, _)
SumOver(v, D) ==
    IF D = {} THEN 0
    ELSE LET d == CHOOSE x \in D : TRUE IN v[d] + SumOver(v, D \ {d})

Max(a, b) == IF a >= b THEN a ELSE b
Min(a, b) == IF a <= b THEN a ELSE b

(* math.cos on fixed-point radians x >= 0: reduction to [0, pi/2], then the *)
(* Taylor polynomial through x^10 in Horner form.                           *)
CosQ(x) ==
    LET y  == (x * x) \div S
        t5 == S - y \div 90
        t4 == S - (y * t5) \div (56 * S)
        t3 == S - (y * t4) \div (30 * S)
        t2 == S - (y * t3) \div (12 * S)
    IN  S - (y * t2) \div (2 * S)

Cos(x) ==
    LET r == x % (2 * PiS)
        h == IF r > PiS THEN 2 * PiS - r ELSE r
    IN  IF 2 * h > PiS THEN 0 - CosQ(PiS - h) ELSE CosQ(h)

(* ------------------------- LR schedule (49-61) ------------------------- *)
(* _lr_lambda(current_step).  num_warmup_steps is a float in the program   *)
(* (args.warmup * len(unlabeled_trainloader)); it is carried in half       *)
(* steps, warmup2 = 2 * num_warmup_steps.                                  *)
CosineBranchNoClamp(step, warmup2, total) ==
    Cos((PiS * CyclesNum * (2 * step - warmup2))
            \div (CyclesDen * Max(2, 2 * total - warmup2)))

CosineBranch(step, warmup2, total) ==
    LET no_progress2 == 2 * step - warmup2
        den2         == Max(2, 2 * total - warmup2)
    IN  Max(0, Cos((PiS * CyclesNum * no_progress2) \div (CyclesDen * den2)))

WarmupBranch(step, warmup2) == (2 * step * S) \div Max(2, warmup2)

LrLambda(step, warmup2, total) ==
    IF 2 * step < warmup2
    THEN WarmupBranch(step, warmup2)
    ELSE CosineBranch(step, warmup2, total)

(* ------------------------------- paths --------------------------------- *)
Join(dir, filename) == dir \o "/" \o filename              \* os.path.join

LastSlash(path) ==
    LET idx == {i \in 1..Len(path) : SubSeq(path, i, i) = "/"}
    IN  IF idx = {} THEN 0 ELSE CHOOSE i \in idx : \A j \in idx : j <= i

Dirname(path) ==                                            \* os.path.dirname
    IF LastSlash(path) = 0 THEN "" ELSE SubSeq(path, 1, LastSlash(path) - 1)

DefaultOut == "result"                                      \* --out default
CheckpointName == "checkpoint.pth.tar"
BestName == "model_best.pth.tar"

(* --------------------------- configuration ----------------------------- *)
(* The command lines the model launches.  local_rank -1 is a single        *)
(* process; a distributed launch starts local ranks 0 .. world-1 on one    *)
(* node, where torch.distributed.get_rank() equals local_rank.             *)
ResumeArgs == {"", "result/checkpoint.pth.tar", "result/model_best.pth.tar",
               "old/checkpoint.pth.tar"}
Worlds == {1, 2}
KImgs == {4}
BatchSizes == {2}
Warmup2s == {0}
Accs == {65, 70, 80}          \* top-1 accuracies the evaluation may report
Grads == {1000}               \* the gradient a backward pass produces
Mu == 7                       \* --mu default

Configs ==
    [world : Worlds, resume : ResumeArgs, epochs : 1..MaxEpochs,
     k_img : KImgs, batch_size : BatchSizes, warmup2 : Warmup2s]

(* A later launch on the same disk is a resumption: it passes --resume.    *)
Relaunches == {c \in Configs : c.resume # ""}

RanksOf(c) == IF c.world = 1 THEN {-1} ELSE 0..(c.world - 1)

(* len(DataLoader(dataset, sampler, batch_size, drop_last=True)) for a     *)
(* dataset of n examples: SequentialSampler yields n, DistributedSampler   *)
(* ceil(n / world) per rank.                                               *)
LoaderLen(n, c) ==
    LET per_rank == IF c.world = 1 THEN n ELSE (n + c.world - 1) \div c.world
    IN  per_rank \div c.batch_size

LenLabeled(c) == LoaderLen(c.k_img, c)
LenUnlabeled(c) == LoaderLen(c.k_img * Mu, c)
ZipLen(c) == Min(LenLabeled(c), LenUnlabeled(c))            \* zip(...) at 361
Iteration(c) == c.k_img \div c.batch_size                   \* args.iteration
TotalSteps(c) == c.epochs * Iteration(c)                    \* args.total_steps
WarmupSteps2(c) == c.warmup2 * LenUnlabeled(c)              \* 2 * (warmup * len)

(* ------------------------------ model ---------------------------------- *)
ParamNames == {"conv1.weight", "bn1.bias"}
NoDecay == {"bias", "bn"}

Contains(n, s) ==
    \E i \in 1..Len(n) :
        i + Len(s) - 1 <= Len(n) /\ SubSeq(n, i, i + Len(s) - 1) = s

IsNoDecay(n) == \E nd \in NoDecay : Contains(n, nd)

EmptySd == [n \in {} |-> 0]
InitSd == [n \in ParamNames |-> IF IsNoDecay(n) THEN 0 ELSE 10000]
NoModel == [sd |-> EmptySd, wrapped |-> FALSE, grad |-> 0]

(* state_dict(): a DistributedDataParallel wrapper prefixes every name.    *)
Prefixed(sd) ==
    [k \in {"module." \o n : n \in DOMAIN sd} |->
        sd[CHOOSE n \in DOMAIN sd : "module." \o n = k]]

StateDict(m) == IF m.wrapped THEN Prefixed(m.sd) ELSE m.sd

(* The state dict of x.module: the names without the wrapper's prefix.     *)
Stripped(sd) ==
    [n \in {SubSeq(k, 8, Len(k)) : k \in DOMAIN sd} |->
        sd[CHOOSE k \in DOMAIN sd : SubSeq(k, 8, Len(k)) = n]]

(* -------------------------- optimizer (243) ---------------------------- *)
BaseLrNum == 3            \* --lr default 0.03
BaseLrDen == 100
MomNum == 9               \* momentum=0.9
MomDen == 10
WdDen == 1000             \* weight_decay = args.wdecay * 2 = 1 / 1000

WeightDecay(n, p) == IF IsNoDecay(n) THEN 0 ELSE p \div WdDen

(* optim.SGD.step() with momentum and nesterov, one parameter: returns the *)
(* new <<parameter, momentum buffer>>.  lr is BaseLrNum * multiplier.      *)
SgdStep(n, p, buf, g, lr) ==
    LET d0   == g + WeightDecay(n, p)
        nbuf == (MomNum * buf) \div MomDen + d0
        d    == d0 + (MomNum * nbuf) \div MomDen
    IN  <<p - (lr * d) \div (BaseLrDen * S), nbuf>>

(* ------------------------- ModelEMA (475-512) -------------------------- *)
EmaDecayNum == 999        \* --ema-decay default 0.999
EmaDecayDen == 1000

EmaBlendGrowing(ema_v, model_v, dn, dd) ==
    (ema_v * (2 * dd - dn) - (dd - dn) * model_v) \div dd
EmaBlendSwapped(ema_v, model_v, dn, dd) == (model_v * dn + (dd - dn) * ema_v) \div dd
EmaBlend(ema_v, model_v, dn, dd) == (ema_v * dn + (dd - dn) * model_v) \div dd

(* The name update() looks up in the live state dict for shadow name k.    *)
EmaKeyAsIs(k, needs_module) == k
EmaKey(k, needs_module) == IF needs_module THEN "module." \o k ELSE k

(* A ModelEMA is its shadow state dict (sd, under the names the deep copy  *)
(* has), ema_has_module, and decay = dn / dd.                              *)
(* ModelEMA.update(model), 503-512: msd[k] raises KeyError when a looked-up *)
(* name is missing from the live state dict; otherwise every shadow entry  *)
(* is blended with the live entry of that name.                            *)
EmaNeedsModule(e, m) == m.wrapped /\ ~e.has_module

EmaKeysFound(e, m) ==
    \A k \in DOMAIN e.sd : EmaKey(k, EmaNeedsModule(e, m)) \in DOMAIN StateDict(m)

EmaUpdate(e, m) ==
    [k \in DOMAIN e.sd |->
        EmaBlend(e.sd[k], StateDict(m)[EmaKey(k, EmaNeedsModule(e, m))],
                 e.dn, e.dd)]

(* ------------------------- checkpoint file ----------------------------- *)
(* The keys main() reads from the loaded checkpoint, in order (267-272).   *)
ResumeReads ==
    <<"best_acc", "epoch", "state_dict", "ema_state_dict", "optimizer", "schduler">>

(* The index of the first key the checkpoint lacks (the read that raises   *)
(* KeyError), or 0 when it has them all.                                   *)
FirstMissing(ck) ==
    LET miss == {i \in 1..Len(ResumeReads) : ResumeReads[i] \notin DOMAIN ck}
    IN  IF miss = {} THEN 0 ELSE CHOOSE i \in miss : \A j \in miss : i <= j

NoCheckpoint == [k \in {} |-> 0]

(* ------------------------------- state --------------------------------- *)
VARIABLES
    run,          \* launches so far
    cfg,          \* args of the current launch
    ranks,        \* local ranks of the current launch
    disk,         \* path -> saved checkpoint, for the files that exist
    dirs,         \* directories created by os.makedirs
    events,       \* <<tag, epoch>> scalars in the metric-log files
    io,           \* <<local_rank, operation>>: who wrote what
    red,          \* the gradient all-reduce of the current iteration
    pc,           \* where each process is in main()
    bar,          \* barrier() calls entered, per process
    ar,           \* backward passes (all-reduce rounds) entered, per process
    out,          \* args.out
    writer,       \* the SummaryWriter: "none", "open", "closed"
    model, ema, optimizer, scheduler,
    best_acc, start_epoch, epoch, batch_idx, test_acc, test_accs,
    checkpoint,   \* the record torch.load returned, per process
    \* LambdaLR over _lr_lambda, alone
    l_warmup2, l_total, l_step, l_mult,
    \* the pseudo-label lines of one training step, alone
    threshold, exp_u_w, ce_u_s, t_pc, max_probs, targets_u, mask, Lu,
    \* one ModelEMA and the model it follows, alone
    e_ema, e_model, e_calls, e_pc,
    \* the optimizer's parameter groups for one set of parameter names, alone
    g_names, g_groups, g_pc

coordVars ==
    <<run, cfg, ranks, disk, dirs, events, io, red, pc, bar, ar, out, writer,
      model, ema, optimizer, scheduler, best_acc, start_epoch, epoch,
      batch_idx, test_acc, test_accs, checkpoint>>

schedVars == <<l_warmup2, l_total, l_step, l_mult>>
labelVars == <<threshold, exp_u_w, ce_u_s, t_pc, max_probs, targets_u, mask, Lu>>
emaVars == <<e_ema, e_model, e_calls, e_pc>>
groupVars == <<g_names, g_groups, g_pc>>
parts == <<schedVars, labelVars, emaVars, groupVars>>

vars == <<coordVars, schedVars, labelVars, emaVars, groupVars>>

Crashed == {"AssertionError", "KeyError", "RuntimeError", "UnboundLocalError"}
Main(p) == p \in {-1, 0}                  \* args.local_rank in [-1, 0]
NoRed == [n |-> 0, sum |-> 0, avg |-> 0]

(* A freshly started process: module globals and locals before main().     *)
Fresh(c, v) == [p \in RanksOf(c) |-> v]
FreshEma == [sd |-> EmptySd, has_module |-> FALSE,
             dn |-> EmaDecayNum, dd |-> EmaDecayDen]
FreshOptimizer == [lr |-> 0, buf |-> EmptySd]
FreshScheduler == [last_epoch |-> -1]

CoordInit ==
    /\ run = 1
    /\ disk = [f \in {} |-> NoCheckpoint]
    /\ dirs = {}
    /\ events = {}
    /\ io = {}
    /\ red = NoRed
    /\ cfg \in Configs
    /\ ranks = RanksOf(cfg)
    /\ pc = Fresh(cfg, "start")
    /\ bar = Fresh(cfg, 0)
    /\ ar = Fresh(cfg, 0)
    /\ out = Fresh(cfg, DefaultOut)
    /\ writer = Fresh(cfg, "none")
    /\ model = Fresh(cfg, NoModel)
    /\ ema = Fresh(cfg, FreshEma)
    /\ optimizer = Fresh(cfg, FreshOptimizer)
    /\ scheduler = Fresh(cfg, FreshScheduler)
    /\ best_acc = Fresh(cfg, 0)                               \* line 30
    /\ start_epoch = Fresh(cfg, 0)
    /\ epoch = Fresh(cfg, 0)
    /\ batch_idx = Fresh(cfg, 0)
    /\ test_acc = Fresh(cfg, 0)
    /\ test_accs = Fresh(cfg, <<>>)
    /\ checkpoint = Fresh(cfg, NoCheckpoint)

(* --------------------------- main(), 193-296 --------------------------- *)
global == <<run, cfg, ranks>>
procState ==
    <<model, ema, optimizer, scheduler, best_acc, start_epoch, epoch,
      batch_idx, test_acc, test_accs, checkpoint>>

(* 193-195: rank 0 (or the single process) creates the output directory    *)
(* and the SummaryWriter; 197: the other ranks go to their barrier.        *)
OutputSetup(p) ==
    /\ pc[p] = "start"
    /\ IF Main(p)
       THEN /\ dirs' = dirs \cup {out[p]}
            /\ writer' = [writer EXCEPT ![p] = "open"]
            /\ io' = io \cup {<<p, "makedirs">>, <<p, "SummaryWriter">>}
       ELSE UNCHANGED <<dirs, writer, io>>
    /\ pc' = [pc EXCEPT ![p] = IF Main(p) THEN "construct" ELSE "b198"]
    /\ UNCHANGED <<parts, global, disk, events, red, bar, ar, out, procState>>

(* torch.distributed.barrier(): a call is entered, and returns once every  *)
(* process of the group has entered as many calls.                         *)
BarrierAt == {"b198", "b206", "b259", "b275"}
Waiting(l) ==
    CASE l = "b198" -> "w198" [] l = "b206" -> "w206"
      [] l = "b259" -> "w259" [] l = "b275" -> "w275"
After(l) ==
    CASE l = "w198" -> "construct" [] l = "w206" -> "setup"
      [] l = "w259" -> "resume"    [] l = "w275" -> "wrap"

BarrierEnter(p) ==
    /\ pc[p] \in BarrierAt
    /\ bar' = [bar EXCEPT ![p] = @ + 1]
    /\ pc' = [pc EXCEPT ![p] = Waiting(pc[p])]
    /\ UNCHANGED <<parts, global, disk, dirs, events, io, red, ar, out, writer, procState>>

BarrierNoWait(p) == TRUE
BarrierReleased(p) == \A q \in ranks : bar[q] >= bar[p]

BarrierLeave(p) ==
    /\ pc[p] \in {"w198", "w206", "w259", "w275"}
    /\ BarrierReleased(p)
    /\ pc' = [pc EXCEPT ![p] = After(pc[p])]
    /\ UNCHANGED <<parts, global, disk, dirs, events, io, red, bar, ar, out, writer, procState>>

(* 200-203: dataset and model construction.                                *)
ConstructBegin(p) ==
    /\ pc[p] = "construct"
    /\ pc' = [pc EXCEPT ![p] = "constructing"]
    /\ UNCHANGED <<parts, global, disk, dirs, events, io, red, bar, ar, out, writer, procState>>

AfterConstructNoBarrier(p) == "setup"
AfterConstruct(p) == IF p = 0 THEN "b206" ELSE "setup"       \* 205

ConstructEnd(p) ==
    /\ pc[p] = "constructing"
    /\ model' = [model EXCEPT ![p] = [sd |-> InitSd, wrapped |-> FALSE, grad |-> 0]]
    /\ pc' = [pc EXCEPT ![p] = AfterConstruct(p)]
    /\ UNCHANGED <<parts, global, disk, dirs, events, io, red, bar, ar, out, writer,
                   ema, optimizer, scheduler, best_acc, start_epoch, epoch,
                   batch_idx, test_acc, test_accs, checkpoint>>

(* LambdaLR: the learning rate the optimizer holds at schedule step n.     *)
LrAtBase(n, c) == BaseLrNum * S
LrAt(n, c) == BaseLrNum * LrLambda(n, WarmupSteps2(c), TotalSteps(c))

(* 208-258: loaders, optimizer, schedule (LambdaLR's constructor takes the *)
(* step-0 rate), the EMA deep copy, start_epoch.                           *)
Setup(p) ==
    /\ pc[p] = "setup"
    /\ optimizer' = [optimizer EXCEPT ![p] =
                        [lr |-> LrAt(0, cfg), buf |-> [n \in ParamNames |-> 0]]]
    /\ scheduler' = [scheduler EXCEPT ![p] = [last_epoch |-> 0]]
    /\ ema' = [ema EXCEPT ![p] =
                  [sd |-> StateDict(model[p]), has_module |-> model[p].wrapped,
                   dn |-> EmaDecayNum, dd |-> EmaDecayDen]]
    /\ start_epoch' = [start_epoch EXCEPT ![p] = 0]
    /\ pc' = [pc EXCEPT ![p] = IF Main(p) THEN "resume" ELSE "b259"]
    /\ UNCHANGED <<parts, global, disk, dirs, events, io, red, bar, ar, out, writer,
                   model, best_acc, epoch, batch_idx, test_acc, test_accs,
                   checkpoint>>

(* 261-272: resume.  The statements run in order and an exception leaves  *)
(* the effects of the statements before it.  ResumeStop is the number of   *)
(* the read (1..6, the order of ResumeReads) that raises, 0 when none      *)
(* does: KeyError for a key the file lacks, RuntimeError for a state dict  *)
(* whose names are not the module's (load_state_dict is strict).           *)
ResumeStops(p, ck) ==
    LET fm == FirstMissing(ck)
    IN  (IF fm > 0 THEN {fm} ELSE {})
        \cup (IF (fm = 0 \/ fm > 3)
                 /\ DOMAIN ck[ResumeReads[3]] # DOMAIN StateDict(model[p])
              THEN {3} ELSE {})
        \cup (IF (fm = 0 \/ fm > 4)
                 /\ DOMAIN ck[ResumeReads[4]] # DOMAIN ema[p].sd
              THEN {4} ELSE {})

ResumeStop(p, ck) ==
    IF ResumeStops(p, ck) = {} THEN 0
    ELSE CHOOSE i \in ResumeStops(p, ck) : \A j \in ResumeStops(p, ck) : i <= j

ResumeError(p, ck) ==
    IF ResumeStop(p, ck) = FirstMissing(ck) THEN "KeyError" ELSE "RuntimeError"

AfterResumeNoBarrier(p) == "wrap"
AfterResume(p) == IF p = 0 THEN "b275" ELSE "wrap"           \* 274

FileExists(path) == path \in DOMAIN disk                    \* os.path.isfile

(* 265-272, the file being there.                                          *)
ResumeLoad(p) ==
    LET ck      == disk[cfg.resume]
        stop    == ResumeStop(p, ck)
        ran(i)  == stop = 0 \/ i < stop
    IN  /\ out' = [out EXCEPT ![p] = Dirname(cfg.resume)]
        /\ checkpoint' = [checkpoint EXCEPT ![p] = ck]
        /\ best_acc' = [best_acc EXCEPT ![p] =
                IF ran(1) THEN ck[ResumeReads[1]] ELSE @]
        /\ start_epoch' = [start_epoch EXCEPT ![p] =
                IF ran(2) THEN ck[ResumeReads[2]] ELSE @]
        /\ model' = [model EXCEPT ![p].sd =
                IF ran(3) THEN ck[ResumeReads[3]] ELSE @]
        /\ ema' = [ema EXCEPT ![p].sd =
                IF ran(4) THEN ck[ResumeReads[4]] ELSE @]
        /\ optimizer' = [optimizer EXCEPT ![p] =
                IF ran(5) THEN ck[ResumeReads[5]] ELSE @]
        /\ scheduler' = [scheduler EXCEPT ![p] =
                IF ran(6) THEN ck[ResumeReads[6]] ELSE @]
        /\ pc' = [pc EXCEPT ![p] =
                IF stop = 0 THEN AfterResume(p) ELSE ResumeError(p, ck)]
        /\ UNCHANGED <<epoch, batch_idx, test_acc, test_accs>>

(* Resume with the assert of 263 moved below the assignment of 265.        *)
ResumeUnchecked(p) ==
    /\ pc[p] = "resume"
    /\ IF cfg.resume = ""
       THEN /\ pc' = [pc EXCEPT ![p] = AfterResume(p)]
            /\ UNCHANGED <<out, procState>>
       ELSE IF ~FileExists(cfg.resume)
       THEN /\ out' = [out EXCEPT ![p] = Dirname(cfg.resume)]
            /\ pc' = [pc EXCEPT ![p] = "AssertionError"]
            /\ UNCHANGED procState
       ELSE ResumeLoad(p)
    /\ UNCHANGED <<parts, global, disk, dirs, events, io, red, bar, ar, writer>>

Resume(p) ==
    /\ pc[p] = "resume"
    /\ IF cfg.resume = ""
       THEN /\ pc' = [pc EXCEPT ![p] = AfterResume(p)]
            /\ UNCHANGED <<out, procState>>
       ELSE IF ~FileExists(cfg.resume)
       THEN /\ pc' = [pc EXCEPT ![p] = "AssertionError"]            \* 263
            /\ UNCHANGED <<out, procState>>
       ELSE ResumeLoad(p)
    /\ UNCHANGED <<parts, global, disk, dirs, events, io, red, bar, ar, writer>>

(* range(start_epoch, args.epochs): the epoch loop's next position.        *)
LoopPc(e, c) == IF e < c.epochs THEN "train" ELSE "close"

(* 277-297: DistributedDataParallel wrapping unless local_rank is -1,      *)
(* model.zero_grad(), and the first test of the epoch loop.                *)
Wrap(p) ==
    /\ pc[p] = "wrap"
    /\ model' = [model EXCEPT ![p].wrapped = (p # -1), ![p].grad = 0]
    /\ epoch' = [epoch EXCEPT ![p] = start_epoch[p]]
    /\ batch_idx' = [batch_idx EXCEPT ![p] = 0]
    /\ pc' = [pc EXCEPT ![p] = LoopPc(start_epoch[p], cfg)]
    /\ UNCHANGED <<parts, global, disk, dirs, events, io, red, bar, ar, out, writer,
                   ema, optimizer, scheduler, best_acc, start_epoch,
                   test_acc, test_accs, checkpoint>>

(* ----------------------------- train(), 348-425 ------------------------ *)
(* 367-393: one batch pair is drawn from the zip, the forward pass and the *)
(* losses are computed and backward() produces the gradient g; under the   *)
(* replication wrapper backward() also enters the gradient all-reduce.     *)
TrainForward(p) ==
    /\ pc[p] = "train"
    /\ IF ZipLen(cfg) = 0
       THEN \* no batch: "return ..., mask_prob" reads an unbound local (425)
            /\ pc' = [pc EXCEPT ![p] = "UnboundLocalError"]
            /\ UNCHANGED <<model, red, ar>>
       ELSE /\ batch_idx[p] < ZipLen(cfg)
            /\ \E g \in Grads :
                /\ model' = [model EXCEPT ![p].grad = g]
                /\ red' = IF red.n + 1 = cfg.world
                          THEN [n |-> 0, sum |-> 0,
                                avg |-> (red.sum + g) \div cfg.world]
                          ELSE [red EXCEPT !.n = @ + 1, !.sum = @ + g]
            /\ ar' = [ar EXCEPT ![p] = @ + 1]
            /\ pc' = [pc EXCEPT ![p] = "backward"]
    /\ UNCHANGED <<parts, global, disk, dirs, events, io, bar, out, writer,
                   ema, optimizer, scheduler, best_acc, start_epoch, epoch,
                   batch_idx, test_acc, test_accs, checkpoint>>

Reduced(p) == \A q \in ranks : ar[q] >= ar[p]

(* optimizer.step(): every parameter and its momentum buffer.              *)
Stepped(m, o, g) ==
    [sd  |-> [n \in DOMAIN m.sd |-> SgdStep(n, m.sd[n], o.buf[n], g, o.lr)[1]],
     buf |-> [n \in DOMAIN m.sd |-> SgdStep(n, m.sd[n], o.buf[n], g, o.lr)[2]]]

(* The model ema_model.update(model) reads at 402: optimizer.step() of     *)
(* 399 has run, so the one after the step.                                 *)
ModelBeforeStep(before, after) == before
ModelAtEmaUpdate(before, after) == after

(* The for loop of 367: another batch pair, or the zip is exhausted and    *)
(* train() returns to the evaluation of 312.                               *)
NextInEpochOneBatch(i, c) == "test"
NextInEpoch(i, c) == IF i + 1 < ZipLen(c) THEN "train" ELSE "test"

(* 395-403, once the all-reduce has returned the averaged gradient:        *)
(* optimizer.step(), scheduler.step(), ema_model.update(model),            *)
(* model.zero_grad(); then the next batch, or train() returns.             *)
TrainUpdate(p) ==
    /\ pc[p] = "backward"
    /\ Reduced(p)
    /\ LET st   == Stepped(model[p], optimizer[p], red.avg)
           live == [model[p] EXCEPT !.sd = st.sd]
           seen == ModelAtEmaUpdate(model[p], live)
           step == scheduler[p].last_epoch + 1
       IN  /\ optimizer' = [optimizer EXCEPT ![p] =
                               [lr |-> LrAt(step, cfg), buf |-> st.buf]]
           /\ scheduler' = [scheduler EXCEPT ![p] = [last_epoch |-> step]]
           /\ IF EmaKeysFound(ema[p], seen)
              THEN /\ ema' = [ema EXCEPT ![p].sd = EmaUpdate(ema[p], seen)]
                   /\ model' = [model EXCEPT ![p] = [live EXCEPT !.grad = 0]]
                   /\ batch_idx' = [batch_idx EXCEPT ![p] = @ + 1]
                   /\ pc' = [pc EXCEPT ![p] = NextInEpoch(batch_idx[p], cfg)]
              ELSE /\ model' = [model EXCEPT ![p] = live]
                   /\ pc' = [pc EXCEPT ![p] = "KeyError"]
                   /\ UNCHANGED <<ema, batch_idx>>
    /\ UNCHANGED <<parts, global, disk, dirs, events, io, red, bar, ar, out, writer,
                   best_acc, start_epoch, epoch, test_acc, test_accs, checkpoint>>

(* ------------------------------ test(), 428-472 ------------------------ *)
(* The evaluation loop over the test set: it returns the top-1 average.    *)
TestRaisingBest(p) ==
    /\ pc[p] = "test"
    /\ \E a \in Accs :
          /\ test_acc' = [test_acc EXCEPT ![p] = a]
          /\ best_acc' = [best_acc EXCEPT ![p] = Max(a, @)]
    /\ pc' = [pc EXCEPT ![p] = "epoch_end"]
    /\ UNCHANGED <<parts, global, disk, dirs, events, io, red, bar, ar, out, writer,
                   model, ema, optimizer, scheduler, start_epoch,
                   epoch, batch_idx, test_accs, checkpoint>>

Test(p) ==
    /\ pc[p] = "test"
    /\ \E a \in Accs : test_acc' = [test_acc EXCEPT ![p] = a]
    /\ pc' = [pc EXCEPT ![p] = "epoch_end"]
    /\ UNCHANGED <<parts, global, disk, dirs, events, io, red, bar, ar, out, writer,
                   model, ema, optimizer, scheduler, best_acc, start_epoch,
                   epoch, batch_idx, test_accs, checkpoint>>

(* --------------------------- main(), 314-345 --------------------------- *)
ScalarTags ==
    {"train/1.train_loss", "train/2.train_loss_x", "train/3.train_loss_u",
     "train/4.mask", "test/1.test_acc", "test/2.test_loss"}

IsBestOrTie(acc, best) == acc >= best
IsBest(acc, best) == acc > best                               \* 322
NewBestLast(acc, best) == acc
NewBest(acc, best) == Max(acc, best)                          \* 323

AsWrapped(m) == m
Unwrapped(m) == [m EXCEPT !.wrapped = FALSE]                  \* model.module

(* ema_model.ema.module if it has one, else ema_model.ema (327-328).       *)
EmaToSave(e) == IF e.has_module THEN Stripped(e.sd) ELSE e.sd

(* The record handed to save_checkpoint (329-337).                         *)
SavedState(p) ==
    [epoch          |-> epoch[p] + 1,
     state_dict     |-> StateDict(Unwrapped(model[p])),
     ema_state_dict |-> EmaToSave(ema[p]),
     acc            |-> test_acc[p],
     best_acc       |-> NewBest(test_acc[p], best_acc[p]),
     optimizer      |-> optimizer[p],
     scheduler      |-> scheduler[p]]

SavesOnEveryRank(p) == TRUE
Saves(p) == p = -1 \/ p = 0          \* local_rank == -1 or get_rank() == 0

(* save_checkpoint(state, is_best, checkpoint), 33-38.                     *)
SaveCheckpoint(d, state, is_best, dir) ==
    LET filepath == Join(dir, CheckpointName)
        saved    == [f \in DOMAIN d \cup {filepath} |->
                        IF f = filepath THEN state ELSE d[f]]
    IN  IF is_best
        THEN [f \in DOMAIN saved \cup {Join(dir, BestName)} |->
                IF f = Join(dir, BestName) THEN saved[filepath] ELSE saved[f]]
        ELSE saved

(* 314-342: scalars, best accuracy, checkpoint, and the loop's next turn.  *)
EpochEnd(p) ==
    /\ pc[p] = "epoch_end"
    /\ IF Main(p)
       THEN events' = events \cup {<<t, epoch[p]>> : t \in ScalarTags}
       ELSE UNCHANGED events
    /\ best_acc' = [best_acc EXCEPT ![p] = NewBest(test_acc[p], @)]
    /\ IF Saves(p)
       THEN disk' = SaveCheckpoint(disk, SavedState(p),
                                   IsBest(test_acc[p], best_acc[p]), out[p])
       ELSE UNCHANGED disk
    /\ io' = io \cup (IF Main(p) THEN {<<p, "add_scalar">>} ELSE {})
                \cup (IF Saves(p) THEN {<<p, "torch.save">>} ELSE {})
                \cup (IF Saves(p) /\ IsBest(test_acc[p], best_acc[p])
                      THEN {<<p, "copyfile">>} ELSE {})
    /\ test_accs' = [test_accs EXCEPT ![p] = Append(@, test_acc[p])]
    /\ epoch' = [epoch EXCEPT ![p] = @ + 1]
    /\ batch_idx' = [batch_idx EXCEPT ![p] = 0]
    /\ pc' = [pc EXCEPT ![p] = LoopPc(epoch[p] + 1, cfg)]
    /\ UNCHANGED <<parts, global, dirs, red, bar, ar, out, writer, model, ema,
                   optimizer, scheduler, start_epoch, test_acc, checkpoint>>

(* 344-345: writer.close().                                                *)
Close(p) ==
    /\ pc[p] = "close"
    /\ IF Main(p)
       THEN /\ writer' = [writer EXCEPT ![p] = "closed"]
            /\ io' = io \cup {<<p, "close">>}
       ELSE UNCHANGED <<writer, io>>
    /\ pc' = [pc EXCEPT ![p] = "done"]
    /\ UNCHANGED <<parts, global, disk, dirs, events, red, bar, ar, out, procState>>

(* ------------------------------ launches ------------------------------- *)
(* The program is started again on the same disk once the previous launch  *)
(* has ended: every process returned from main(), or one raised (the       *)
(* launcher then ends the others, which wait in a collective).             *)
RunOver ==
    \/ \A p \in ranks : pc[p] = "done"
    \/ \E p \in ranks : pc[p] \in Crashed

Launch ==
    /\ run < MaxRuns
    /\ RunOver
    /\ run' = run + 1
    /\ \E c \in Relaunches :
        /\ cfg' = c
        /\ ranks' = RanksOf(c)
        /\ pc' = Fresh(c, "start")
        /\ bar' = Fresh(c, 0)
        /\ ar' = Fresh(c, 0)
        /\ out' = Fresh(c, DefaultOut)
        /\ writer' = Fresh(c, "none")
        /\ model' = Fresh(c, NoModel)
        /\ ema' = Fresh(c, FreshEma)
        /\ optimizer' = Fresh(c, FreshOptimizer)
        /\ scheduler' = Fresh(c, FreshScheduler)
        /\ best_acc' = Fresh(c, 0)
        /\ start_epoch' = Fresh(c, 0)
        /\ epoch' = Fresh(c, 0)
        /\ batch_idx' = Fresh(c, 0)
        /\ test_acc' = Fresh(c, 0)
        /\ test_accs' = Fresh(c, <<>>)
        /\ checkpoint' = Fresh(c, NoCheckpoint)
    /\ red' = NoRed
    /\ UNCHANGED <<parts, disk, dirs, events, io>>

(* -------------------- the parts checked on their own ------------------- *)
(* LambdaLR(optimizer, _lr_lambda): construction evaluates step 0 and each *)
(* scheduler.step() the next step.                                         *)
SchedInit ==
    /\ l_warmup2 \in 0..MaxWarmup2
    /\ l_total \in 0..MaxTotal
    /\ l_step = 0
    /\ l_mult = LrLambda(0, l_warmup2, l_total)

SchedulerStep ==
    /\ l_step < MaxStep
    /\ l_step' = l_step + 1
    /\ l_mult' = LrLambda(l_step + 1, l_warmup2, l_total)
    /\ UNCHANGED <<l_warmup2, l_total, coordVars, labelVars, emaVars, groupVars>>

SchedIdle == l_warmup2 = 0 /\ l_total = 0 /\ l_step = 0 /\ l_mult = 0

(* Lines 381-386 of train() on one unlabeled batch.  exp_u_w[i][c] is      *)
(* exp(logits_u_w[i][c]); ce_u_s[i] is the cross-entropy of example i's    *)
(* strong-view logits against its pseudo-label; threshold is num / den.    *)
Classes == 1..3               \* class c of the program is index c + 1
Examples == 1..2
ExpLogits ==
    {v \in [Classes -> {1, 2, 3, 5, 95, 97}] : SumOver(v, Classes) \in {3, 10, 100}}
Thresholds == {<<95, 100>>, <<1, 2>>}
CrossEntropies == {0, 700, 3000}

(* torch.softmax(x, dim=-1)[c] as the fraction <<num, den>>.               *)
Softmax(v) == [c \in Classes |-> <<v[c], SumOver(v, Classes)>>]

FracGe(a, b) == a[1] * b[2] >= b[1] * a[2]                  \* a >= b
FracGt(a, b) == a[1] * b[2] > b[1] * a[2]

(* torch.max(p, dim=-1): the maximum, and the index of its first           *)
(* occurrence.                                                             *)
MaxIndex(p) ==
    CHOOSE c \in Classes :
        /\ \A d \in Classes : FracGe(p[c], p[d])
        /\ \A d \in Classes : d < c => FracGt(p[c], p[d])

GeStrict(a, b) == FracGt(a, b)
Ge(a, b) == FracGe(a, b)                                    \* Tensor.ge
Float(b) == IF b THEN 1 ELSE 0                              \* Tensor.float

MaskOf(max_prob, thr) == Float(Ge(max_prob, thr))           \* 383

(* (cross_entropy(..., reduction='none') * mask).mean(), 385-386.          *)
Masked(ce, m) == [i \in Examples |-> ce[i] * m[i]]
Mean(v) == SumOver(v, Examples) \div Cardinality(Examples)

LabelInit ==
    /\ threshold \in Thresholds
    /\ exp_u_w \in [Examples -> ExpLogits]
    /\ ce_u_s \in [Examples -> CrossEntropies]
    /\ t_pc = "batch"
    /\ max_probs = [i \in Examples |-> <<0, 1>>]
    /\ targets_u = [i \in Examples |-> 1]
    /\ mask = [i \in Examples |-> 0]
    /\ Lu = 0

PseudoLabel ==
    /\ t_pc = "batch"
    /\ LET pseudo_label == [i \in Examples |-> Softmax(exp_u_w[i])]
           idx == [i \in Examples |-> MaxIndex(pseudo_label[i])]
           mx  == [i \in Examples |-> pseudo_label[i][idx[i]]]
           m   == [i \in Examples |-> MaskOf(mx[i], threshold)]
       IN  /\ max_probs' = mx
           /\ targets_u' = idx
           /\ mask' = m
           /\ Lu' = Mean(Masked(ce_u_s, m))
    /\ t_pc' = "loss"
    /\ UNCHANGED <<threshold, exp_u_w, ce_u_s, coordVars, schedVars, emaVars, groupVars>>

LabelIdle ==
    /\ threshold = <<95, 100>>
    /\ exp_u_w = <<>> /\ ce_u_s = <<>> /\ t_pc = "idle"
    /\ max_probs = <<>> /\ targets_u = <<>> /\ mask = <<>> /\ Lu = 0

(* One ModelEMA and the model it follows: update() calls, with optimizer  *)
(* steps changing the live entries in between.  1.0 is Unit, so that       *)
(* MaxEmaCalls blends with decay dn / 10 are exact.                        *)
RECURSIVE Pow(_, _)
Pow(b, n) == IF n = 0 THEN 1 ELSE b * Pow(b, n - 1)
Unit == Pow(10, MaxEmaCalls)
ShadowValues == {0, 10 * Unit, 0 - 10 * Unit}
LiveValues == {0, 4 * Unit}
Decays == {<<9, 10>>, <<5, 10>>}

EmaInit ==
    /\ \E sd \in [ParamNames -> ShadowValues], hm \in BOOLEAN, d \in Decays :
          e_ema = [sd |-> IF hm THEN Prefixed(sd) ELSE sd, has_module |-> hm,
                   dn |-> d[1], dd |-> d[2]]
    /\ \E sd \in [ParamNames -> LiveValues], w \in BOOLEAN :
          e_model = [sd |-> sd, wrapped |-> w, grad |-> 0]
    /\ e_calls = 0
    /\ e_pc = "ok"

EmaCall ==
    /\ e_pc = "ok"
    /\ e_calls < MaxEmaCalls
    /\ IF EmaKeysFound(e_ema, e_model)
       THEN /\ e_ema' = [e_ema EXCEPT !.sd = EmaUpdate(e_ema, e_model)]
            /\ e_calls' = e_calls + 1
            /\ e_pc' = e_pc
       ELSE /\ e_pc' = "KeyError"
            /\ UNCHANGED <<e_ema, e_calls>>
    /\ UNCHANGED <<e_model, coordVars, schedVars, labelVars, groupVars>>

LiveStep ==
    /\ e_pc = "ok"
    /\ \E sd \in [ParamNames -> LiveValues] :
          /\ sd # e_model.sd
          /\ e_model' = [e_model EXCEPT !.sd = sd]
    /\ UNCHANGED <<e_ema, e_calls, e_pc, coordVars, schedVars, labelVars, groupVars>>

EmaIdle ==
    /\ e_ema = FreshEma /\ e_model = NoModel /\ e_calls = 0 /\ e_pc = "idle"

(* 232-241: the two parameter groups handed to optim.SGD, for a model      *)
(* whose named_parameters() are g_names.  weight_decay is num / den.       *)
NameUniverse ==
    {"conv1.weight", "conv1.bias", "bn1.weight", "bn1.bias", "fc.weight",
     "fc.bias", "block1.layer.0.conv2.weight", "subnet.weight"}

DecayGroupAll(names) == names
DecayGroup(names) == {n \in names : ~IsNoDecay(n)}
NoDecayGroup(names) == {n \in names : IsNoDecay(n)}

GroupedParameters(names) ==
    <<[params |-> DecayGroup(names), weight_decay |-> <<1, WdDen>>],
      [params |-> NoDecayGroup(names), weight_decay |-> <<0, 1>>]>>

GroupInit ==
    /\ g_names \in SUBSET NameUniverse
    /\ g_groups = <<>>
    /\ g_pc = "model"

GroupParameters ==
    /\ g_pc = "model"
    /\ g_groups' = GroupedParameters(g_names)
    /\ g_pc' = "grouped"
    /\ UNCHANGED <<g_names, coordVars, schedVars, labelVars, emaVars>>

GroupIdle == g_names = {} /\ g_groups = <<>> /\ g_pc = "idle"

CoordIdle ==
    /\ run = 0 /\ cfg = <<>> /\ ranks = {} /\ disk = <<>> /\ dirs = {}
    /\ events = {} /\ io = {} /\ red = NoRed /\ pc = <<>> /\ bar = <<>>
    /\ ar = <<>> /\ out = <<>> /\ writer = <<>> /\ model = <<>> /\ ema = <<>>
    /\ optimizer = <<>> /\ scheduler = <<>> /\ best_acc = <<>>
    /\ start_epoch = <<>> /\ epoch = <<>> /\ batch_idx = <<>>
    /\ test_acc = <<>> /\ test_accs = <<>> /\ checkpoint = <<>>

Init == CoordInit /\ SchedIdle /\ LabelIdle /\ EmaIdle /\ GroupIdle

Next ==
    \/ Launch
    \/ \E p \in ranks : OutputSetup(p)
    \/ \E p \in ranks : BarrierEnter(p)
    \/ \E p \in ranks : BarrierLeave(p)
    \/ \E p \in ranks : ConstructBegin(p)
    \/ \E p \in ranks : ConstructEnd(p)
    \/ \E p \in ranks : Setup(p)
    \/ \E p \in ranks : Resume(p)
    \/ \E p \in ranks : Wrap(p)
    \/ \E p \in ranks : TrainForward(p)
    \/ \E p \in ranks : TrainUpdate(p)
    \/ \E p \in ranks : Test(p)
    \/ \E p \in ranks : EpochEnd(p)
    \/ \E p \in ranks : Close(p)

Spec == Init /\ [][Next]_vars

(* Every process of a launch is a running program: a step it can take and  *)
(* stays able to take is eventually taken.  A relaunch is nobody's duty.   *)
AllRanks == {-1, 0, 1}

ProcStep(p) ==
    /\ p \in ranks
    /\ \/ OutputSetup(p) \/ BarrierEnter(p) \/ BarrierLeave(p)
       \/ ConstructBegin(p) \/ ConstructEnd(p) \/ Setup(p) \/ Resume(p)
       \/ Wrap(p) \/ TrainForward(p) \/ TrainUpdate(p) \/ Test(p)
       \/ EpochEnd(p) \/ Close(p)

(* The launches of one epoch: the barriers are all before the epoch loop.  *)
LiveInit == Init /\ cfg.epochs = 1

SpecLive ==
    LiveInit /\ [][Next]_vars /\ \A p \in AllRanks : WF_vars(ProcStep(p))

ScheduleInit == SchedInit /\ CoordIdle /\ LabelIdle /\ EmaIdle /\ GroupIdle
ScheduleNext == SchedulerStep
SpecSchedule == ScheduleInit /\ [][ScheduleNext]_vars

PseudoLabelInit == LabelInit /\ CoordIdle /\ SchedIdle /\ EmaIdle /\ GroupIdle
PseudoLabelNext == PseudoLabel
SpecLabel == PseudoLabelInit /\ [][PseudoLabelNext]_vars

ModelEmaInit == EmaInit /\ CoordIdle /\ SchedIdle /\ LabelIdle /\ GroupIdle
ModelEmaNext == EmaCall \/ LiveStep
SpecEma == ModelEmaInit /\ [][ModelEmaNext]_vars

GroupsInit == GroupInit /\ CoordIdle /\ SchedIdle /\ LabelIdle /\ EmaIdle
GroupsNext == GroupParameters
SpecGroups == GroupsInit /\ [][GroupsNext]_vars

(* ------------------------------ properties ----------------------------- *)
Resumed(p) == checkpoint[p] # NoCheckpoint        \* torch.load has returned
PastResume == {"b275", "w275", "wrap"}
InLoop == {"train", "backward", "test", "epoch_end"}
Returned == {"close", "done"}

RECURSIVE MaxOf(_)
MaxOf(set) ==
    LET x == CHOOSE y \in set : TRUE
    IN  IF set = {x} THEN x ELSE Max(x, MaxOf(set \ {x}))

Range(seq) == {seq[i] : i \in 1..Len(seq)}

(* C1: a checkpoint written by the per-epoch save is restored by the       *)
(* resume path: every key the resume reads is a key of the loaded file,    *)
(* the resume block does not raise, and when it has run the optimizer      *)
(* state, the schedule step count, the EMA parameters and the best         *)
(* accuracy are those of the file.                                         *)
CheckpointRoundTrip ==
    \A p \in ranks :
        Resumed(p) =>
            /\ \A i \in 1..Len(ResumeReads) :
                  ResumeReads[i] \in DOMAIN checkpoint[p]
            /\ pc[p] \notin Crashed
            /\ pc[p] \in PastResume =>
                  /\ optimizer[p] = checkpoint[p].optimizer
                  /\ scheduler[p] = checkpoint[p].scheduler
                  /\ ema[p].sd = checkpoint[p].ema_state_dict
                  /\ best_acc[p] = checkpoint[p].best_acc

(* C2: the epoch a checkpoint records is the next epoch to run: while the  *)
(* saving process is past epoch e the file records e + 1, and a process    *)
(* that loaded a checkpoint goes on into the epoch loop and runs it from   *)
(* the recorded epoch, neither repeating nor skipping one.                 *)
ResumeRunsFromRecordedEpoch ==
    \A p \in ranks :
        /\ (Saves(p) /\ pc[p] \in InLoop \cup Returned
                /\ epoch[p] > start_epoch[p]) =>
              disk[Join(out[p], CheckpointName)].epoch = epoch[p]
        /\ (Resumed(p) /\ pc[p] # "resume") =>
              /\ pc[p] \in PastResume \cup InLoop \cup Returned
              /\ start_epoch[p] = checkpoint[p].epoch
              /\ pc[p] \in InLoop =>
                    /\ epoch[p] >= checkpoint[p].epoch
                    /\ epoch[p] = checkpoint[p].epoch + Len(test_accs[p])

(* C3: best_acc never decreases while a process runs, the restore from a   *)
(* checkpoint included, and always equals the maximum of the initial or    *)
(* restored value and the test accuracies of the epochs ended so far.      *)
BestBase(p) == IF Resumed(p) THEN checkpoint[p].best_acc ELSE 0

BestIsMax ==
    \A p \in ranks : best_acc[p] = MaxOf({BestBase(p)} \cup Range(test_accs[p]))

BestAccMonotoneMax ==
    /\ []BestIsMax
    /\ [][\A p \in ranks : run' = run => best_acc'[p] >= best_acc[p]]_vars

BestAccWitness ==
    \E p \in ranks :
        /\ test_accs[p] = <<70, 65, 80>>
        /\ best_acc[p] = 80
        /\ disk[Join(out[p], BestName)].best_acc = 80

(* C4, as stated: in a run of several processes, once rank 0 is past its   *)
(* barrier of line 206 every other rank has finished constructing its      *)
(* dataset and model; none is still constructing or yet to start.          *)
BeforeConstructed == {"start", "b198", "w198", "construct", "constructing"}
Past206 ==
    {"setup", "resume", "b275", "w275", "wrap"} \cup InLoop \cup Returned
        \cup Crashed

AllConstructedPast206 ==
    (0 \in ranks /\ pc[0] \in Past206) =>
        \A q \in ranks \ {0} : pc[q] \notin BeforeConstructed

(* C4, what the barriers give: rank 0 is past its barrier of line 206 only *)
(* when it has constructed its own dataset and model and every other rank  *)
(* has entered its barrier of line 198, the one it calls before it starts  *)
(* constructing; and rank 0 is past its barrier of line 275, at the        *)
(* wrapping and the training, only when every other rank has finished      *)
(* constructing.                                                           *)
Past275 == {"wrap"} \cup InLoop \cup Returned

AllEnteredPast206 ==
    /\ (0 \in ranks /\ pc[0] \in Past206) =>
          /\ model[0] # NoModel
          /\ \A q \in ranks \ {0} : pc[q] \notin {"start", "b198"} /\ bar[q] >= 1
    /\ (0 \in ranks /\ pc[0] \in Past275) =>
          \A q \in ranks \ {0} : pc[q] \notin BeforeConstructed

AllEnteredWitness ==
    /\ 0 \in ranks /\ pc[0] = "setup"
    /\ \E q \in ranks \ {0} : pc[q] = "w198"

(* C5: in a run of several processes, a non-zero rank is past its barrier  *)
(* of line 198, and so able to start constructing, only when rank 0 has    *)
(* created the output directory and the SummaryWriter and has finished     *)
(* constructing its own dataset and model.                                 *)
RankZeroFirst ==
    \A q \in ranks \ {-1, 0} :
        pc[q] \notin {"start", "b198", "w198"} =>
            /\ out[0] \in dirs
            /\ writer[0] # "none"
            /\ model[0] # NoModel
            /\ pc[0] \notin {"start", "construct", "constructing"}

RankZeroFirstWitness ==
    /\ \E q \in ranks \ {-1, 0} : pc[q] = "constructing"
    /\ run = 1

(* C6: every creation of the output directory, SummaryWriter call, scalar  *)
(* write, checkpoint write, best copy and close is done by rank 0 (or the  *)
(* single process), and a step of a non-zero rank leaves the directories,  *)
(* the files and the logged scalars as they were and opens no writer.      *)
OutputOps ==
    {"makedirs", "SummaryWriter", "add_scalar", "torch.save", "copyfile", "close"}

RankZeroOnlyOutput ==
    /\ [](\A e \in io : e[1] \in {-1, 0} /\ e[2] \in OutputOps)
    /\ [](\A p \in ranks \ {-1, 0} : writer[p] = "none")
    /\ [][\A p \in ranks \ {-1, 0} :
            (run' = run /\ pc'[p] # pc[p]) =>
                /\ disk' = disk /\ dirs' = dirs
                /\ events' = events /\ io' = io]_vars

RankZeroOnlyWitness ==
    /\ run = 1 /\ 0 \in ranks
    /\ \A op \in OutputOps \ {"close"} : <<0, op>> \in io
    /\ \E q \in ranks \ {0} : pc[q] \in Returned /\ Len(test_accs[q]) >= 2

(* C7: after lines 381-386, for every unlabeled example i the mask is 0 or *)
(* 1, it is 1 exactly when the largest softmax probability of the weak     *)
(* view is at least the threshold, targets_u[i] is a class of largest      *)
(* probability, and Lu is the mean in which an example of mask 0 counts 0  *)
(* whatever its cross-entropy; probabilities 0.97, 0.02, 0.01 at threshold *)
(* 0.95 give class 0 and mask 1, and 0.5, 0.3, 0.2 give mask 0.            *)
Confident(v, thr) ==
    \E c \in Classes : v[c] * thr[2] >= thr[1] * SumOver(v, Classes)

PseudoLabelMasking ==
    t_pc = "loss" =>
        /\ \A i \in Examples :
              /\ mask[i] \in {0, 1}
              /\ mask[i] = 1 <=> Confident(exp_u_w[i], threshold)
              /\ \A d \in Classes : exp_u_w[i][targets_u[i]] >= exp_u_w[i][d]
              /\ max_probs[i] = <<exp_u_w[i][targets_u[i]],
                                  SumOver(exp_u_w[i], Classes)>>
              /\ (exp_u_w[i] = <<97, 2, 1>> /\ threshold = <<95, 100>>) =>
                    targets_u[i] = 1 /\ mask[i] = 1
              /\ (exp_u_w[i] = <<5, 3, 2>> /\ threshold = <<95, 100>>) =>
                    mask[i] = 0
        /\ Lu = SumOver([i \in Examples |->
                            IF mask[i] = 1 THEN ce_u_s[i] ELSE 0], Examples)
                    \div Cardinality(Examples)

PseudoLabelWitness ==
    /\ t_pc = "loss" /\ threshold = <<95, 100>>
    /\ exp_u_w = <<<<97, 2, 1>>, <<5, 3, 2>>>>
    /\ ce_u_s = <<700, 3000>>
    /\ mask = <<1, 0>> /\ targets_u[1] = 1 /\ Lu = 350

(* C8: every call of ModelEMA.update that returns leaves each shadow entry *)
(* equal to decay * (its value before the call) + (1 - decay) * (the live  *)
(* model's entry for the same parameter at the call), with the same names  *)
(* as before; decay 0.9, shadow 10.0 and live 0.0 give 9.0.                *)
Bare(k, has_module) == IF has_module THEN SubSeq(k, 8, Len(k)) ELSE k

EmaEquation ==
    [][e_calls' = e_calls + 1 =>
        /\ DOMAIN e_ema'.sd = DOMAIN e_ema.sd
        /\ \A k \in DOMAIN e_ema.sd :
              e_ema.dd * e_ema'.sd[k] =
                  e_ema.dn * e_ema.sd[k]
                  + (e_ema.dd - e_ema.dn) * e_model.sd[Bare(k, e_ema.has_module)]]_vars

EmaEquationWitness ==
    /\ e_calls = 1 /\ e_ema.dn = 9 /\ e_ema.dd = 10
    /\ \E k \in DOMAIN e_ema.sd :
          e_ema.sd[k] = 9 * Unit /\ e_model.sd[Bare(k, e_ema.has_module)] = 0

(* C9: at every step and for every warmup_steps and total_steps the        *)
(* multiplier is in [0, 1]; it is 0 at step 0 when warmup_steps > 0; below *)
(* warmup_steps it is the ramp step / max(1, warmup_steps) and does not    *)
(* decrease from one step to the next; from warmup_steps up to total_steps *)
(* it does not increase from one step to the next.                         *)
MultiplierInRange ==
    /\ 0 <= l_mult /\ l_mult <= S
    /\ (l_step = 0 /\ l_warmup2 > 0) => l_mult = 0
    /\ 2 * l_step < l_warmup2 => l_mult = (2 * l_step * S) \div Max(2, l_warmup2)

MultiplierRangeAndShape ==
    /\ []MultiplierInRange
    /\ [][/\ 2 * l_step' < l_warmup2 => l_mult' >= l_mult
          /\ (2 * l_step >= l_warmup2 /\ l_step' <= l_total) =>
                l_mult' <= l_mult]_vars

MultiplierWitness ==
    /\ l_warmup2 = 4 /\ l_total = 3 /\ l_step = 3
    /\ 0 < l_mult /\ l_mult < S

(* C10: when --resume names a path at which no file exists, no process of  *)
(* the run gets past the resume block: a process that reaches the block    *)
(* stops there with AssertionError, and best_acc, start_epoch, args.out    *)
(* and the model, EMA, optimizer and schedule state of every process stay  *)
(* what construction made them; no training step is executed.              *)
ResumeMissing == cfg.resume # "" /\ ~FileExists(cfg.resume)
BeforeLoop ==
    {"start", "b198", "w198", "construct", "constructing", "b206", "w206",
     "setup", "b259", "w259", "resume", "AssertionError"}

MissingCheckpointFatal ==
    ResumeMissing =>
        \A p \in ranks :
            /\ pc[p] \in BeforeLoop
            /\ best_acc[p] = 0 /\ start_epoch[p] = 0
            /\ out[p] = DefaultOut
            /\ checkpoint[p] = NoCheckpoint
            /\ ar[p] = 0 /\ batch_idx[p] = 0 /\ test_accs[p] = <<>>
            /\ pc[p] = "AssertionError" =>
                  /\ model[p] = [sd |-> InitSd, wrapped |-> FALSE, grad |-> 0]
                  /\ ema[p].sd = InitSd
                  /\ optimizer[p] = [lr |-> LrAt(0, cfg),
                                     buf |-> [n \in ParamNames |-> 0]]
                  /\ scheduler[p] = [last_epoch |-> 0]

MissingCheckpointWitness ==
    /\ cfg.resume = "old/checkpoint.pth.tar"
    /\ \E p \in ranks : pc[p] = "AssertionError"

(* C11: a call of ModelEMA.update either returns with every shadow entry   *)
(* blended from the live entry of the reconciled name ("module." put       *)
(* before the shadow name when the live model is wrapped and the shadow is *)
(* not), or raises KeyError because a reconciled name is missing from the  *)
(* live state dict; it never returns with an entry left as it was.         *)
Reconciled(k) ==
    IF e_model.wrapped /\ ~e_ema.has_module THEN "module." \o k ELSE k

LiveNames ==
    IF e_model.wrapped THEN {"module." \o n : n \in DOMAIN e_model.sd}
    ELSE DOMAIN e_model.sd

LiveEntry(name) ==
    e_model.sd[IF e_model.wrapped THEN SubSeq(name, 8, Len(name)) ELSE name]

EmaNeverSkips ==
    [][(e_pc = "ok" /\ <<e_ema, e_calls, e_pc>>' # <<e_ema, e_calls, e_pc>>) =>
        \/ /\ e_pc' = "ok" /\ e_calls' = e_calls + 1
           /\ \A k \in DOMAIN e_ema.sd :
                 /\ Reconciled(k) \in LiveNames
                 /\ e_ema.dd * e_ema'.sd[k] =
                        e_ema.dn * e_ema.sd[k]
                        + (e_ema.dd - e_ema.dn) * LiveEntry(Reconciled(k))
        \/ /\ e_pc' = "KeyError" /\ e_calls' = e_calls
           /\ \E k \in DOMAIN e_ema.sd : Reconciled(k) \notin LiveNames]_vars

EmaNeverSkipsWitness ==
    /\ e_pc = "ok" /\ e_calls = 2
    /\ e_model.wrapped /\ ~e_ema.has_module
    /\ \A k \in DOMAIN e_ema.sd : e_ema.sd[k] \notin ShadowValues

(* C12: the two parameter groups partition the named parameters: no name   *)
(* is in both, every name is in one, the names that contain "bias" or "bn" *)
(* are the group of weight decay 0 and all others the group of weight      *)
(* decay wdecay * 2.                                                       *)
HasSubstring(n, sub) ==
    \E i \in 1..Len(n) : \E j \in i..Len(n) : SubSeq(n, i, j) = sub

WeightDecayPartition ==
    g_pc = "grouped" =>
        /\ Len(g_groups) = 2
        /\ g_groups[1].params \cap g_groups[2].params = {}
        /\ g_groups[1].params \cup g_groups[2].params = g_names
        /\ g_groups[2].params =
              {n \in g_names : HasSubstring(n, "bias") \/ HasSubstring(n, "bn")}
        /\ g_groups[2].weight_decay[1] = 0
        /\ g_groups[1].weight_decay[1] > 0

WeightDecayWitness ==
    /\ g_pc = "grouped" /\ g_names = NameUniverse
    /\ g_groups[1].params =
          {"conv1.weight", "fc.weight", "block1.layer.0.conv2.weight"}

(* C13: every training iteration runs backward, optimizer.step(),          *)
(* scheduler.step(), ema_model.update(model), model.zero_grad() in that    *)
(* order: the step uses the gradient of this iteration and the learning    *)
(* rate set before the schedule step, the EMA blends the parameters the    *)
(* step produced, the gradient is then zero, and the schedule has counted  *)
(* one step and the EMA made one update for each optimizer step.           *)
PostStep(p, n) ==
    SgdStep(n, model[p].sd[n], optimizer[p].buf[n], red.avg, optimizer[p].lr)

IterationCompletes(p) ==
    pc[p] = "backward" /\ pc'[p] \in {"train", "test"}

IterationOrder ==
    [][\A p \in ranks :
        IterationCompletes(p) =>
            /\ model[p].grad # 0
            /\ \A n \in ParamNames :
                  /\ model'[p].sd[n] = PostStep(p, n)[1]
                  /\ optimizer'[p].buf[n] = PostStep(p, n)[2]
                  /\ ema'[p].sd[n] =
                        (ema[p].sd[n] * EmaDecayNum
                         + (EmaDecayDen - EmaDecayNum) * model'[p].sd[n])
                            \div EmaDecayDen
            /\ scheduler'[p].last_epoch = scheduler[p].last_epoch + 1
            /\ model'[p].grad = 0
            /\ batch_idx'[p] = batch_idx[p] + 1]_vars

StepsCounted ==
    \A p \in ranks :
        pc[p] \in InLoop \cup Returned =>
            scheduler[p].last_epoch =
                ar[p] - (IF pc[p] = "backward" THEN 1 ELSE 0)

IterationOrdering == []StepsCounted /\ IterationOrder

IterationOrderingWitness ==
    \E p \in ranks :
        /\ pc[p] = "test" /\ scheduler[p].last_epoch = 2
        /\ ema[p].sd # InitSd /\ model[p].grad = 0
        /\ \E n \in ParamNames : ema[p].sd[n] # model[p].sd[n]

(* C14: the schedule's counter never decreases while a process runs and    *)
(* goes up by exactly 1 in each training iteration and in no other step of *)
(* the epoch loop; the optimizer always holds base_lr * multiplier(counter)*)
(* and the optimizer step of the iteration done at counter c moves the     *)
(* parameters by that rate, multiplier(0) for the first step of a fresh    *)
(* run.                                                                    *)
RateAt(c) == BaseLrNum * LrLambda(c, WarmupSteps2(cfg), TotalSteps(cfg))

RateFollowsCounter ==
    \A p \in ranks :
        pc[p] \in InLoop \cup Returned =>
            /\ scheduler[p].last_epoch >= 0
            /\ optimizer[p].lr = RateAt(scheduler[p].last_epoch)

CounterSteps ==
    [][\A p \in ranks :
        run' = run =>
            /\ scheduler'[p].last_epoch >= scheduler[p].last_epoch
            /\ IF IterationCompletes(p)
               THEN /\ scheduler'[p].last_epoch = scheduler[p].last_epoch + 1
                    /\ \A n \in ParamNames :
                          model'[p].sd[n] =
                              SgdStep(n, model[p].sd[n], optimizer[p].buf[n],
                                      red.avg,
                                      RateAt(scheduler[p].last_epoch))[1]
               ELSE pc[p] \in InLoop =>
                        scheduler'[p].last_epoch = scheduler[p].last_epoch]_vars

ScheduleCounter == []RateFollowsCounter /\ CounterSteps

ScheduleCounterWitness ==
    \E p \in ranks :
        /\ pc[p] = "test" /\ scheduler[p].last_epoch = 2 /\ ar[p] = 2
        /\ optimizer[p].lr = RateAt(2) /\ RateAt(2) < RateAt(1)
        /\ RateAt(1) < RateAt(0) /\ RateAt(0) = BaseLrNum * S

(* C15: every epoch executes exactly int(k_img / batch_size) training      *)
(* steps whatever the lengths of the two loaders, so a fresh run that has  *)
(* ended all its epochs has a schedule counter of total_steps = epochs *   *)
(* iteration.                                                              *)
StepsFollowIteration ==
    \A p \in ranks :
        /\ pc[p] \in {"test", "epoch_end"} => batch_idx[p] = Iteration(cfg)
        /\ (pc[p] \in Returned /\ ~Resumed(p)) =>
              scheduler[p].last_epoch = TotalSteps(cfg)

(* C16: at the end of an epoch the saving process copies the checkpoint it *)
(* has just written to model_best.pth.tar exactly when the epoch's test    *)
(* accuracy is greater than best_acc as it was before the epoch, a tie     *)
(* leaving the best file as it was; so once the run has written the best   *)
(* file, the accuracy recorded in it is the current best_acc.              *)
BestPath(p) == Join(out[p], BestName)
CheckpointPath(p) == Join(out[p], CheckpointName)

BestCopyIffGreater ==
    [][\A p \in ranks :
        (pc[p] = "epoch_end" /\ pc'[p] # "epoch_end" /\ Saves(p)) =>
            /\ CheckpointPath(p) \in DOMAIN disk'
            /\ disk'[CheckpointPath(p)].acc = test_acc[p]
            /\ IF test_acc[p] > best_acc[p]
               THEN /\ BestPath(p) \in DOMAIN disk'
                    /\ disk'[BestPath(p)] = disk'[CheckpointPath(p)]
               ELSE /\ BestPath(p) \in DOMAIN disk' <=> BestPath(p) \in DOMAIN disk
                    /\ BestPath(p) \in DOMAIN disk =>
                          disk'[BestPath(p)] = disk[BestPath(p)]]_vars

BestFileRecordsBest ==
    \A p \in ranks :
        (Saves(p) /\ best_acc[p] > BestBase(p)) =>
            /\ BestPath(p) \in DOMAIN disk
            /\ disk[BestPath(p)].acc = best_acc[p]
            /\ disk[BestPath(p)].best_acc = best_acc[p]

BestCopy == []BestFileRecordsBest /\ BestCopyIffGreater

BestCopyWitness ==
    \E p \in ranks :
        /\ Saves(p) /\ test_accs[p] = <<70, 70, 65>>
        /\ disk[BestPath(p)].epoch = 1
        /\ disk[CheckpointPath(p)].epoch = 3

(* C17: the resume block loads the model, EMA and optimizer state into a   *)
(* model that is not yet wrapped, the wrapping coming only at line 282     *)
(* after the block; and every checkpoint file holds the model and EMA      *)
(* weights under the names of the unwrapped module, whether or not the     *)
(* process that saved it was wrapped, so a load never fails on the names.  *)
BeforeWrap ==
    {"start", "b198", "w198", "construct", "constructing", "b206", "w206",
     "setup", "b259", "w259", "resume", "b275", "w275", "wrap"}

CanonicalNames ==
    /\ \A f \in DOMAIN disk :
          /\ DOMAIN disk[f].state_dict = ParamNames
          /\ DOMAIN disk[f].ema_state_dict = ParamNames
    /\ \A p \in ranks :
          /\ pc[p] # "RuntimeError"
          /\ model[p].wrapped => pc[p] \notin BeforeWrap
          /\ (pc[p] \in InLoop /\ p # -1) => model[p].wrapped

RestoreThenWrap ==
    [][\A p \in ranks :
        run' = run =>
            /\ checkpoint'[p] # checkpoint[p] =>
                  /\ pc[p] = "resume"
                  /\ ~model[p].wrapped /\ ~model'[p].wrapped
                  /\ model'[p].sd = checkpoint'[p].state_dict
                  /\ ema'[p].sd = checkpoint'[p].ema_state_dict
                  /\ optimizer'[p] = checkpoint'[p].optimizer
            /\ (model'[p].wrapped /\ ~model[p].wrapped) => pc[p] = "wrap"]_vars

RestorePrecedesWrapping == []CanonicalNames /\ RestoreThenWrap

RestorePrecedesWrappingWitness ==
    /\ run = 2 /\ cfg.world = 2
    /\ \E p \in ranks :
          /\ Resumed(p) /\ ~model[p].wrapped
          /\ model[p].sd = checkpoint[p].state_dict /\ model[p].sd # InitSd
          /\ checkpoint[p].scheduler.last_epoch = 1

(* C18: in every epoch a process runs all the training steps the loaders   *)
(* give, then the evaluation, then the epoch end with the best-accuracy    *)
(* update and, on the saving process, the checkpoint.  A process writes a  *)
(* checkpoint only there and enters a barrier only before the loop, never  *)
(* with a training step of its own begun and not finished, so a checkpoint *)
(* holds the saving process's state at the end of a completed epoch.       *)
EpochSteps ==
    [][\A p \in ranks :
        run' = run =>
            /\ (pc'[p] = "test" /\ pc[p] # "test") =>
                  pc[p] = "backward" /\ batch_idx'[p] = ZipLen(cfg)
            /\ (pc'[p] = "epoch_end" /\ pc[p] # "epoch_end") => pc[p] = "test"
            /\ (pc'[p] = "train" /\ pc[p] # "train") =>
                  \/ pc[p] \in {"wrap", "epoch_end"} /\ batch_idx'[p] = 0
                  \/ pc[p] = "backward" /\ batch_idx'[p] < ZipLen(cfg)
            /\ (pc[p] = "epoch_end" /\ pc'[p] # "epoch_end") =>
                  /\ batch_idx[p] = ZipLen(cfg) /\ model[p].grad = 0
                  /\ best_acc'[p] = Max(test_acc[p], best_acc[p])
                  /\ Saves(p) =>
                        /\ disk'[CheckpointPath(p)].state_dict = model[p].sd
                        /\ disk'[CheckpointPath(p)].ema_state_dict = ema[p].sd
                        /\ disk'[CheckpointPath(p)].optimizer = optimizer[p]
                        /\ disk'[CheckpointPath(p)].scheduler = scheduler[p]
                        /\ disk'[CheckpointPath(p)].epoch = epoch[p] + 1
            /\ (disk' # disk /\ pc'[p] # pc[p]) => pc[p] = "epoch_end" /\ Saves(p)
            /\ bar'[p] # bar[p] => pc[p] \in BarrierAt]_vars

SavedAtEpochEnd ==
    /\ run = 1 =>
          \A f \in DOMAIN disk :
              disk[f].scheduler.last_epoch = disk[f].epoch * ZipLen(cfg)
    /\ \A p \in ranks :
          pc[p] \in {"train", "backward"} =>
              scheduler[p].last_epoch = epoch[p] * ZipLen(cfg) + batch_idx[p]

EpochOrdering == []SavedAtEpochEnd /\ EpochSteps

EpochOrderingWitness ==
    /\ run = 1 /\ cfg.world = 1
    /\ pc[-1] = "backward" /\ epoch[-1] = 1 /\ batch_idx[-1] = 1
    /\ disk[CheckpointPath(-1)].epoch = 1
    /\ disk[CheckpointPath(-1)].scheduler.last_epoch = 2

(* C19: a run of the evaluation loop leaves the live model's parameters,   *)
(* the EMA's shadow parameters, the optimizer state, the schedule counter  *)
(* and best_acc as they were, and writes no file.                          *)
EvaluationReadOnly ==
    [][\A p \in ranks :
        (pc[p] = "test" /\ pc'[p] # "test" /\ run' = run) =>
            /\ pc'[p] = "epoch_end"
            /\ model'[p] = model[p]
            /\ ema'[p] = ema[p]
            /\ optimizer'[p] = optimizer[p]
            /\ scheduler'[p] = scheduler[p]
            /\ best_acc'[p] = best_acc[p]
            /\ disk' = disk]_vars

EvaluationReadOnlyWitness ==
    \E p \in ranks :
        /\ pc[p] = "epoch_end" /\ test_acc[p] = 80 /\ best_acc[p] = 70
        /\ model[p].sd # InitSd /\ ema[p].sd # InitSd

(* C20: before the epoch loop every rank of a multi-process run calls the  *)
(* barrier twice, rank 0 at lines 206 and 275 and the others at 198 and    *)
(* 259, the k-th call of one pairing with the k-th of the others; a single *)
(* process calls none.  So no barrier is left waiting: every process that  *)
(* starts reaches the epoch loop, unless some rank of the run raises.      *)
LoopReached(p) == pc[p] \in {"wrap"} \cup InLoop \cup Returned

CallsMade(p) ==
    IF p = -1 THEN 0
    ELSE IF p = 0
    THEN (IF pc[p] \in {"start", "construct", "constructing", "b206"} THEN 0
          ELSE IF pc[p] \in {"w206", "setup", "resume", "b275"} THEN 1
          ELSE IF pc[p] \in Crashed THEN bar[p] ELSE 2)
    ELSE (IF pc[p] \in {"start", "b198"} THEN 0
          ELSE IF pc[p] \in {"w198", "construct", "constructing", "setup", "b259"}
          THEN 1
          ELSE IF pc[p] \in Crashed THEN bar[p] ELSE 2)

BarrierCounts ==
    \A p \in ranks :
        /\ bar[p] = CallsMade(p)
        /\ LoopReached(p) => bar[p] = (IF p = -1 THEN 0 ELSE 2)
        /\ pc[p] \in {"construct", "setup", "resume", "wrap"} =>
              \A q \in ranks : bar[q] >= bar[p]

BarrierMatching ==
    /\ []BarrierCounts
    /\ \A p \in AllRanks :
          (p \in ranks /\ pc[p] = "start")
              ~> (p \in ranks
                  /\ (LoopReached(p) \/ \E q \in ranks : pc[q] \in Crashed))

BarrierMatchingWitness ==
    /\ cfg.world = 2
    /\ \A p \in ranks : pc[p] = "train" /\ bar[p] = 2 /\ batch_idx[p] = 0

(* C21: while every live entry stays 0.0, each ModelEMA.update call leaves *)
(* no shadow entry larger in magnitude than before, makes every non-zero   *)
(* one strictly smaller, and never takes one across 0.0 to the other sign; *)
(* after n calls an entry that started at v is v * decay^n, so from 10.0   *)
(* with decay 0.9 it is 9.0 and then 8.1.                                  *)
Abs(x) == IF x < 0 THEN 0 - x ELSE x
LiveAtZero == \A n \in DOMAIN e_model.sd : e_model.sd[n] = 0
ShadowKey(n) == IF e_ema.has_module THEN "module." \o n ELSE n

ShadowShrinks ==
    [][(e_calls' = e_calls + 1 /\ LiveAtZero) =>
        \A k \in DOMAIN e_ema.sd :
            /\ Abs(e_ema'.sd[k]) <= Abs(e_ema.sd[k])
            /\ e_ema.sd[k] # 0 => Abs(e_ema'.sd[k]) < Abs(e_ema.sd[k])
            /\ e_ema.sd[k] >= 0 => e_ema'.sd[k] >= 0
            /\ e_ema.sd[k] <= 0 => e_ema'.sd[k] <= 0]_vars

StartsAt(v, n) == e_calls = 0 /\ e_ema.sd[ShadowKey(n)] = v

DecayedFrom(v, n) ==
    \E c \in 0..MaxEmaCalls :
        /\ e_calls = c
        /\ Pow(e_ema.dd, c) * e_ema.sd[ShadowKey(n)] = Pow(e_ema.dn, c) * v

ShadowGeometric ==
    \A v \in ShadowValues : \A n \in ParamNames :
        (StartsAt(v, n) /\ []LiveAtZero) => []DecayedFrom(v, n)

EmaConvergence == ShadowShrinks /\ ShadowGeometric

EmaConvergenceWitness ==
    /\ e_pc = "ok" /\ e_calls = 2 /\ LiveAtZero
    /\ e_ema.dn = 9 /\ e_ema.dd = 10
    /\ \E k \in DOMAIN e_ema.sd : 10 * e_ema.sd[k] = 81 * Unit
    /\ \E k \in DOMAIN e_ema.sd : 10 * e_ema.sd[k] = 0 - 81 * Unit
====
